---- MODULE Spec2Model ----
(***************************************************************************)
(* Model of Kodrapay/fraud-service: the rule-based decision engine         *)
(* (internal/fraud: RuleBasedFraudDetector, FraudRule, DefaultRules), the  *)
(* in-memory fraud data repository it reads (internal/repository) and the  *)
(* payment-link validator of the service layer (internal/services).        *)
(*                                                                         *)
(* Go values of dynamic type (map[string]interface{} entries) are tagged   *)
(* records [t, v]; float64 scores and amounts are modelled by integers     *)
(* (every weight and threshold of the source is a whole number); time is   *)
(* counted in hours.  Every FraudRule carries a Predicate (none is nil).   *)
(*                                                                         *)
(* Specifications: Spec is the decision engine over every catalog of up to *)
(* MaxRules rules and a provider that is seeded and may fail; SpecLink is  *)
(* the payment-link validator against the transaction authority;           *)
(* SpecWindow is the engine over the default catalog with a clock and a    *)
(* store of timestamped records; SpecDefaults is the default catalog on    *)
(* event data of every shape; SpecConcurrent interleaves the loop          *)
(* iterations of several calls.  Except in SpecConcurrent a request is     *)
(* answered before the next one is taken; seeding happens between requests.*)
(***************************************************************************)
EXTENDS Integers, Sequences, FiniteSets, TLC

VARIABLES
    given,          \* the rule list handed to NewRuleBasedFraudDetector
    rules,          \* RuleBasedFraudDetector.rules
    transactions,   \* InMemoryFraudDataRepository.transactions
    ipData,         \* InMemoryFraudDataRepository.ipData
    down,           \* provider operations whose backend currently fails
    now,            \* time.Now(), in hours
    last,           \* the CheckTransaction request in hand and what it returned
    authority,      \* the transaction authority's records, by reference
    link,           \* the payment-link request in hand and what it returned
    prev,           \* the previous CheckTransaction request answered since the last write
    calls           \* the CheckTransaction calls running concurrently, by goroutine

detectorVars == <<given, rules, transactions, ipData, down, now, last>>

linkVars == <<authority, link>>

vars == <<given, rules, transactions, ipData, down, now, last, authority, link, prev, calls>>

----------------------------------------------------------------------------
(* Bounds of the model *)

MaxRules == 2

MaxHistory == 2

\* The longest merchant_id and amount parameter of a link, in characters
MaxStrLen == 2

\* The records the store holds in SpecWindow, over all customers
MaxRecords == 6

\* The clock advances of SpecWindow
MaxTicks == 3

\* The CheckTransaction calls that run at the same time in SpecConcurrent
NumCalls == 2

----------------------------------------------------------------------------
(* Dynamically typed values: transactionData[k].(T) *)

Str(s) == [t |-> "string", v |-> s]

Num(n) == [t |-> "float64", v |-> n]

Absent == [t |-> "absent", v |-> "nil"]

IsString(x) == x.t = "string"

IsFloat(x) == x.t = "float64"

----------------------------------------------------------------------------
(* Errors: fmt.Errorf("... rule %s: %w", rule.ID, cause) *)

NoErr == [msg |-> "nil", rule |-> "", cause |-> "nil"]

Errorf(msg, id, cause) == [msg |-> msg, rule |-> id, cause |-> cause]

----------------------------------------------------------------------------
(* FraudRule.Predicate: the function values the catalogs carry, by name.   *)
(* Each returns (bool, error) as [ok, err].                                *)

PredOk(b) == [ok |-> b, err |-> "nil"]

\* HighAmountPredicate returning an error for an amount that is no float64
MutHighAmountPredicateFailsUntyped(ev) ==
    IF IsFloat(ev.amount) THEN PredOk(ev.amount.v > 1000)
    ELSE [ok |-> FALSE, err |-> "amount is missing or invalid"]

\* HighAmountPredicate triggering from the threshold on
MutHighAmountPredicateInclusive(ev) ==
    IF IsFloat(ev.amount) THEN PredOk(ev.amount.v >= 1000) ELSE PredOk(FALSE)

\* DefaultRules, HIGH_AMOUNT_TRANSACTION: amount.(float64) > 1000.00
HighAmountPredicate(ev) ==
    IF IsFloat(ev.amount) THEN PredOk(ev.amount.v > 1000) ELSE PredOk(FALSE)

\* DefaultRules, SUSPICIOUS_IP_ORIGIN: origin.(string) == "suspicious_ip"
SuspiciousOriginPredicate(ev) ==
    IF IsString(ev.origin) THEN PredOk(ev.origin.v = "suspicious_ip") ELSE PredOk(FALSE)

\* DefaultRules, HIGH_VELOCITY_CUSTOMER: the placeholder, never triggered
VelocityPlaceholderPredicate(ev) == PredOk(FALSE)

\* A caller-supplied predicate that fails on an amount it cannot coerce
StrictAmountPredicate(ev) ==
    IF IsFloat(ev.amount) THEN PredOk(ev.amount.v > 1000)
    ELSE [ok |-> FALSE, err |-> "amount is not a number"]

\* A caller-supplied predicate on the origin field
CleanOriginPredicate(ev) ==
    IF IsString(ev.origin) THEN PredOk(ev.origin.v = "clean") ELSE PredOk(FALSE)

\* rule.Predicate(transactionData)
CallPredicate(name, ev) ==
    CASE name = "HighAmount" -> HighAmountPredicate(ev)
      [] name = "SuspiciousOrigin" -> SuspiciousOriginPredicate(ev)
      [] name = "VelocityPlaceholder" -> VelocityPlaceholderPredicate(ev)
      [] name = "StrictAmount" -> StrictAmountPredicate(ev)
      [] name = "CleanOrigin" -> CleanOriginPredicate(ev)

----------------------------------------------------------------------------
(* FraudRule and the catalogs *)

FraudRule(id, desc, thr, score, dec, en, pred) ==
    [ID |-> id, Description |-> desc, Threshold |-> thr, ScoreImpact |-> score,
     Decision |-> dec, Enabled |-> en, Predicate |-> pred]

DefaultRules ==
    << FraudRule("HIGH_AMOUNT_TRANSACTION",
                 "Flags transactions with amounts exceeding a high threshold.",
                 1000, 50, "flag", TRUE, "HighAmount"),
       FraudRule("SUSPICIOUS_IP_ORIGIN",
                 "Flags transactions originating from suspicious IP addresses.",
                 1, 70, "flag", TRUE, "SuspiciousOrigin"),
       FraudRule("HIGH_VELOCITY_CUSTOMER",
                 "Flags customers with unusually high transaction velocity.",
                 5, 60, "flag", TRUE, "VelocityPlaceholder") >>

\* The rules a caller's catalog is drawn from: the first two defaults, the
\* velocity rule with a threshold the bounded history can exceed and a weight
\* under the medium threshold, a deny-hint rule, an approve-hint rule with a
\* negative weight, an approve-hint rule whose predicate can fail, and two
\* disabled rules (one pure, one data-dependent).
RulePool ==
    { DefaultRules[1],
      DefaultRules[2],
      FraudRule("HIGH_VELOCITY_CUSTOMER", "More than one transaction in the window.",
                1, 40, "flag", TRUE, "VelocityPlaceholder"),
      FraudRule("BLOCKED_ORIGIN", "Denies transactions from a blocked origin.",
                1, 30, "deny", TRUE, "SuspiciousOrigin"),
      FraudRule("TRUSTED_ORIGIN", "Lowers the score of a trusted origin.",
                1, -20, "approve", TRUE, "CleanOrigin"),
      FraudRule("STRICT_AMOUNT", "Scores high amounts, strictly typed.",
                1000, 50, "approve", TRUE, "StrictAmount"),
      FraudRule("LARGE_AMOUNT_BLOCK", "Denies high amounts.",
                1000, 100, "deny", FALSE, "StrictAmount"),
      FraudRule("SUSPICIOUS_IP_ORIGIN", "Suspicious IP (switched off).",
                1, 70, "deny", FALSE, "SuspiciousOrigin") }

Catalogs == UNION { [1..n -> RulePool] : n \in 0..MaxRules }

\* NewRuleBasedFraudDetector keeping the list it is given
MutNewDetectorNoFallback(rs) == rs

\* NewRuleBasedFraudDetector: an empty (or nil) list is replaced by DefaultRules()
NewRuleBasedFraudDetector(rs) == IF Len(rs) = 0 THEN DefaultRules ELSE rs

----------------------------------------------------------------------------
(* Program constants *)

\* CheckTransaction passes 24*time.Hour as the velocity lookback
LookbackHours == 24

\* "Example high risk threshold"
HighRiskThreshold == 100

\* "Example medium risk threshold"
MediumRiskThreshold == 50

----------------------------------------------------------------------------
(* The fraud data provider.  A repository value is the record               *)
(* [transactions, ipData, down, now] of the variables of that name.         *)

\* The address the model seeds reputation data for
KnownIPs == {"vpn_ip"}

TransactionRecord(ts) == [Timestamp |-> ts]

EmptyMap == [k \in {} |-> <<>>]

\* As GetTransactionHistory, but a record exactly lookback old is still returned
MutGetTransactionHistoryInclusive(repo, customerID, lookback) ==
    IF customerID \in DOMAIN repo.transactions
    THEN LET cutoff == repo.now - lookback
         IN  SelectSeq(repo.transactions[customerID], LAMBDA txn : txn.Timestamp >= cutoff)
    ELSE <<>>

\* InMemoryFraudDataRepository.GetTransactionHistory: the records of the
\* customer with Timestamp.After(now - lookback); an unknown customer has none
GetTransactionHistory(repo, customerID, lookback) ==
    IF customerID \in DOMAIN repo.transactions
    THEN LET cutoff == repo.now - lookback
         IN  SelectSeq(repo.transactions[customerID], LAMBDA txn : txn.Timestamp > cutoff)
    ELSE <<>>

\* InMemoryFraudDataRepository.GetIPData: the stored map, or nil
GetIPData(repo, ipAddress) ==
    IF ipAddress \in DOMAIN repo.ipData
    THEN [nil |-> FALSE, is_vpn |-> repo.ipData[ipAddress]]
    ELSE [nil |-> TRUE, is_vpn |-> FALSE]

\* FraudDataRepository, as the detector sees it: (value, error).  The in-memory
\* implementation never fails; a provider whose backend is down returns an error.
RepoGetTransactionHistory(repo, customerID, lookback) ==
    IF "history" \in repo.down
    THEN [val |-> <<>>, err |-> "history backend unavailable"]
    ELSE [val |-> GetTransactionHistory(repo, customerID, lookback), err |-> "nil"]

RepoGetIPData(repo, ipAddress) ==
    IF "ip" \in repo.down
    THEN [val |-> [nil |-> TRUE, is_vpn |-> FALSE], err |-> "ip backend unavailable"]
    ELSE [val |-> GetIPData(repo, ipAddress), err |-> "nil"]

----------------------------------------------------------------------------
(* RuleBasedFraudDetector.CheckTransaction *)

\* FraudDecision{}: the zero value returned beside an error
EmptyDecision == [OverallScore |-> 0, Decision |-> "", Reasons |-> <<>>]

\* RuleTriggered with the velocity rule triggering from the threshold on
MutRuleTriggeredAtThreshold(rule, ev, repo) ==
    CASE rule.ID = "HIGH_VELOCITY_CUSTOMER" ->
            IF IsString(ev.customer_id)
            THEN LET h == RepoGetTransactionHistory(repo, ev.customer_id.v, LookbackHours)
                     f == << [op |-> "GetTransactionHistory", key |-> ev.customer_id.v] >>
                 IN  IF h.err # "nil"
                     THEN [isTriggered |-> FALSE, fetches |-> f,
                           err |-> Errorf("failed to get transaction history for rule",
                                          rule.ID, h.err)]
                     ELSE [isTriggered |-> Len(h.val) >= rule.Threshold, fetches |-> f,
                           err |-> NoErr]
            ELSE [isTriggered |-> FALSE, fetches |-> <<>>, err |-> NoErr]
      [] rule.ID = "SUSPICIOUS_IP_ORIGIN" ->
            IF IsString(ev.origin)
            THEN LET d == RepoGetIPData(repo, ev.origin.v)
                     f == << [op |-> "GetIPData", key |-> ev.origin.v] >>
                 IN  IF d.err # "nil"
                     THEN [isTriggered |-> FALSE, fetches |-> f,
                           err |-> Errorf("failed to get IP data for rule", rule.ID, d.err)]
                     ELSE [isTriggered |-> ((~d.val.nil /\ d.val.is_vpn)
                                            \/ ev.origin.v = "suspicious_ip"),
                           fetches |-> f, err |-> NoErr]
            ELSE [isTriggered |-> FALSE, fetches |-> <<>>, err |-> NoErr]
      [] OTHER ->
            LET r == CallPredicate(rule.Predicate, ev)
            IN  IF r.err # "nil"
                THEN [isTriggered |-> FALSE, fetches |-> <<>>,
                      err |-> Errorf("error evaluating rule", rule.ID, r.err)]
                ELSE [isTriggered |-> r.ok, fetches |-> <<>>, err |-> NoErr]

\* The switch on rule.ID: how one enabled rule's isTriggered is determined.
\* fetches lists the provider calls made for it.
RuleTriggered(rule, ev, repo) ==
    CASE rule.ID = "HIGH_VELOCITY_CUSTOMER" ->
            IF IsString(ev.customer_id)
            THEN LET h == RepoGetTransactionHistory(repo, ev.customer_id.v, LookbackHours)
                     f == << [op |-> "GetTransactionHistory", key |-> ev.customer_id.v] >>
                 IN  IF h.err # "nil"
                     THEN [isTriggered |-> FALSE, fetches |-> f,
                           err |-> Errorf("failed to get transaction history for rule",
                                          rule.ID, h.err)]
                     ELSE [isTriggered |-> Len(h.val) > rule.Threshold, fetches |-> f,
                           err |-> NoErr]
            ELSE [isTriggered |-> FALSE, fetches |-> <<>>, err |-> NoErr]
      [] rule.ID = "SUSPICIOUS_IP_ORIGIN" ->
            IF IsString(ev.origin)
            THEN LET d == RepoGetIPData(repo, ev.origin.v)
                     f == << [op |-> "GetIPData", key |-> ev.origin.v] >>
                 IN  IF d.err # "nil"
                     THEN [isTriggered |-> FALSE, fetches |-> f,
                           err |-> Errorf("failed to get IP data for rule", rule.ID, d.err)]
                     ELSE [isTriggered |-> ((~d.val.nil /\ d.val.is_vpn)
                                            \/ ev.origin.v = "suspicious_ip"),
                           fetches |-> f, err |-> NoErr]
            ELSE [isTriggered |-> FALSE, fetches |-> <<>>, err |-> NoErr]
      [] OTHER ->
            LET r == CallPredicate(rule.Predicate, ev)
            IN  IF r.err # "nil"
                THEN [isTriggered |-> FALSE, fetches |-> <<>>,
                      err |-> Errorf("error evaluating rule", rule.ID, r.err)]
                ELSE [isTriggered |-> r.ok, fetches |-> <<>>, err |-> NoErr]

\* The locals of CheckTransaction before the loop.  ctl is where control goes
\* next: "loop" (next iteration), "break" or "return" (the error returns).
\* fetches and evaluated record what the loop did, for the properties.
LoopStart ==
    [totalScore |-> 0, Decision |-> "approve", Reasons |-> <<>>,
     ctl |-> "loop", err |-> NoErr, fetches |-> <<>>, evaluated |-> <<>>]

\* ApplyTriggered without the break after a deny hint
MutApplyTriggeredNoBreak(st, rule) ==
    LET scored == [st EXCEPT !.totalScore = @ + rule.ScoreImpact,
                             !.Reasons = Append(@, rule.Description)]
    IN  IF rule.Decision = "deny"
        THEN [scored EXCEPT !.Decision = "deny"]
        ELSE IF rule.Decision = "flag" /\ scored.Decision # "deny"
             THEN [scored EXCEPT !.Decision = "flag"]
             ELSE scored

\* ApplyTriggered putting the newest reason first
MutApplyTriggeredPrepends(st, rule) ==
    LET scored == [st EXCEPT !.totalScore = @ + rule.ScoreImpact,
                             !.Reasons = <<rule.Description>> \o @]
    IN  IF rule.Decision = "deny"
        THEN [scored EXCEPT !.Decision = "deny", !.ctl = "break"]
        ELSE IF rule.Decision = "flag" /\ scored.Decision # "deny"
             THEN [scored EXCEPT !.Decision = "flag"]
             ELSE scored

\* ApplyTriggered without the "else if rule.Decision == flag" branch
MutApplyTriggeredIgnoresFlagHint(st, rule) ==
    LET scored == [st EXCEPT !.totalScore = @ + rule.ScoreImpact,
                             !.Reasons = Append(@, rule.Description)]
    IN  IF rule.Decision = "deny"
        THEN [scored EXCEPT !.Decision = "deny", !.ctl = "break"]
        ELSE scored

\* if isTriggered { ... }: the score, the reason and the rule's decision hint
ApplyTriggered(st, rule) ==
    LET scored == [st EXCEPT !.totalScore = @ + rule.ScoreImpact,
                             !.Reasons = Append(@, rule.Description)]
    IN  IF rule.Decision = "deny"
        THEN [scored EXCEPT !.Decision = "deny", !.ctl = "break"]
        ELSE IF rule.Decision = "flag" /\ scored.Decision # "deny"
             THEN [scored EXCEPT !.Decision = "flag"]
             ELSE scored

\* LoopBody without the "if !rule.Enabled { continue }"
MutLoopBodyIgnoresEnabled(st, rule, i, ev, repo) ==
    LET r == RuleTriggered(rule, ev, repo)
        seen == [st EXCEPT
                   !.fetches = @ \o [k \in 1..Len(r.fetches) |->
                                       [rule |-> i, op |-> r.fetches[k].op,
                                        key |-> r.fetches[k].key]],
                   !.evaluated = Append(@, [rule |-> i, isTriggered |-> r.isTriggered])]
    IN  IF r.err # NoErr
        THEN [seen EXCEPT !.ctl = "return", !.err = r.err]
        ELSE IF r.isTriggered THEN ApplyTriggered(seen, rule) ELSE seen

\* LoopBody adding the rule's weight outside the "if isTriggered"
MutLoopBodyScoresUntriggered(st, rule, i, ev, repo) ==
    IF ~rule.Enabled
    THEN st
    ELSE LET r == RuleTriggered(rule, ev, repo)
             seen == [st EXCEPT
                        !.fetches = @ \o [k \in 1..Len(r.fetches) |->
                                            [rule |-> i, op |-> r.fetches[k].op,
                                             key |-> r.fetches[k].key]],
                        !.evaluated = Append(@, [rule |-> i, isTriggered |-> r.isTriggered])]
         IN  IF r.err # NoErr
             THEN [seen EXCEPT !.ctl = "return", !.err = r.err]
             ELSE IF r.isTriggered THEN ApplyTriggered(seen, rule)
                  ELSE [seen EXCEPT !.totalScore = @ + rule.ScoreImpact]

\* One iteration of "for _, rule := range d.rules", rule being d.rules[i]
LoopBody(st, rule, i, ev, repo) ==
    IF ~rule.Enabled
    THEN st
    ELSE LET r == RuleTriggered(rule, ev, repo)
             seen == [st EXCEPT
                        !.fetches = @ \o [k \in 1..Len(r.fetches) |->
                                            [rule |-> i, op |-> r.fetches[k].op,
                                             key |-> r.fetches[k].key]],
                        !.evaluated = Append(@, [rule |-> i, isTriggered |-> r.isTriggered])]
         IN  IF r.err # NoErr
             THEN [seen EXCEPT !.ctl = "return", !.err = r.err]
             ELSE IF r.isTriggered THEN ApplyTriggered(seen, rule) ELSE seen

RECURSIVE RuleLoop(_, _, _, _, _)
RuleLoop(rs, i, st, ev, repo) ==
    IF i > Len(rs) \/ st.ctl # "loop"
    THEN st
    ELSE RuleLoop(rs, i + 1, LoopBody(st, rs[i], i, ev, repo), ev, repo)

\* FinalDecision with strict comparisons
MutFinalDecisionStrict(decision, totalScore) ==
    IF decision # "deny"
    THEN IF totalScore > HighRiskThreshold THEN "deny"
         ELSE IF totalScore > MediumRiskThreshold THEN "flag"
         ELSE decision
    ELSE decision

\* "Final decision based on total score if not already denied"
FinalDecision(decision, totalScore) ==
    IF decision # "deny"
    THEN IF totalScore >= HighRiskThreshold THEN "deny"
         ELSE IF totalScore >= MediumRiskThreshold THEN "flag"
         ELSE decision
    ELSE decision

\* CheckTransaction returning the decision accumulated so far beside the error
MutCheckTransactionPartial(rs, ev, repo) ==
    LET st == RuleLoop(rs, 1, LoopStart, ev, repo)
    IN  [decision |-> [OverallScore |-> st.totalScore,
                       Decision |-> FinalDecision(st.Decision, st.totalScore),
                       Reasons |-> st.Reasons],
         err |-> st.err, fetches |-> st.fetches, evaluated |-> st.evaluated]

\* What CheckTransaction returns: (FraudDecision, error), with the record of
\* the rules it evaluated and the provider calls it made
CheckTransaction(rs, ev, repo) ==
    LET st == RuleLoop(rs, 1, LoopStart, ev, repo)
    IN  IF st.ctl = "return"
        THEN [decision |-> EmptyDecision, err |-> st.err,
              fetches |-> st.fetches, evaluated |-> st.evaluated]
        ELSE [decision |-> [OverallScore |-> st.totalScore,
                            Decision |-> FinalDecision(st.Decision, st.totalScore),
                            Reasons |-> st.Reasons],
              err |-> NoErr, fetches |-> st.fetches, evaluated |-> st.evaluated]

\* FraudService.CheckTransaction: passes the detector's answer on
ServiceCheckTransaction(rs, ev, repo) ==
    LET r == CheckTransaction(rs, ev, repo)
    IN  IF r.err # NoErr THEN [r EXCEPT !.decision = EmptyDecision] ELSE r

----------------------------------------------------------------------------
(* The decision engine as a state machine *)

\* transactionData as the detector reads it: customer_id, amount and origin,
\* each present with the expected type, present with another type, or absent
Events ==
    [customer_id : {Str("c1"), Num(7)},
     amount      : {Num(10), Num(1500), Str("1500")},
     origin      : {Str("clean"), Str("suspicious_ip"), Str("vpn_ip"), Absent}]

Repo == [transactions |-> transactions, ipData |-> ipData, down |-> down, now |-> now]

NoCall == [called |-> FALSE]

\* Routes wiring: a repository with empty maps, a detector over the given rules
Init ==
    /\ given \in Catalogs
    /\ rules = NewRuleBasedFraudDetector(given)
    /\ transactions = EmptyMap
    /\ ipData = EmptyMap
    /\ down = {}
    /\ now = 2 * LookbackHours
    /\ last = NoCall
    /\ authority = EmptyMap
    /\ link = NoCall
    /\ prev = NoCall
    /\ calls = <<>>

\* InMemoryFraudDataRepository.AddTransaction.  Seeding and backend changes
\* happen between requests: the repository's maps have no concurrency control.
AddTransaction(customerID, txn) ==
    /\ last = NoCall
    /\ \A c \in DOMAIN transactions : Len(transactions[c]) < MaxHistory
    /\ transactions' =
         IF customerID \in DOMAIN transactions
         THEN [transactions EXCEPT ![customerID] = Append(@, txn)]
         ELSE (customerID :> <<txn>>) @@ transactions
    /\ UNCHANGED <<given, rules, ipData, down, now, last>>
    /\ UNCHANGED linkVars
    /\ UNCHANGED <<prev, calls>>

\* InMemoryFraudDataRepository.AddIPData, data being {"is_vpn": isVpn}
AddIPData(ipAddress, isVpn) ==
    /\ last = NoCall
    /\ ipData' = (ipAddress :> isVpn) @@ [k \in DOMAIN ipData \ {ipAddress} |-> ipData[k]]
    /\ ipData' # ipData
    /\ UNCHANGED <<given, rules, transactions, down, now, last>>
    /\ UNCHANGED linkVars
    /\ UNCHANGED <<prev, calls>>

\* The provider's backend fails or recovers (FraudDataRepository returns errors)
SetBackend(d) ==
    /\ last = NoCall
    /\ d # down
    /\ down' = d
    /\ UNCHANGED <<given, rules, transactions, ipData, now, last>>
    /\ UNCHANGED linkVars
    /\ UNCHANGED <<prev, calls>>

\* One request: FraudService.CheckTransaction -> detector.CheckTransaction
CheckTransactionCall ==
    /\ last = NoCall
    /\ \E ev \in Events :
          last' = [called |-> TRUE, ev |-> ev,
                   det |-> CheckTransaction(rules, ev, Repo),
                   out |-> ServiceCheckTransaction(rules, ev, Repo)]
    /\ UNCHANGED <<given, rules, transactions, ipData, down, now>>
    /\ UNCHANGED linkVars
    /\ UNCHANGED <<prev, calls>>

\* The handler writes the response; the decision is not kept
Respond ==
    /\ last # NoCall
    /\ last' = NoCall
    /\ UNCHANGED <<given, rules, transactions, ipData, down, now>>
    /\ UNCHANGED linkVars
    /\ UNCHANGED <<prev, calls>>

Next ==
    \/ \E c \in {"c1"} : AddTransaction(c, TransactionRecord(now))
    \/ \E ip \in KnownIPs, b \in BOOLEAN : AddIPData(ip, b)
    \/ \E d \in {{}, {"history"}, {"ip"}} : SetBackend(d)
    \/ CheckTransactionCall
    \/ Respond

Spec == Init /\ [][Next]_vars

----------------------------------------------------------------------------
(* What the properties are stated in terms of *)

Range(f) == {f[k] : k \in DOMAIN f}

\* Rule j of rs is enabled and its trigger condition holds for ev
Fires(rs, j, ev, repo) == rs[j].Enabled /\ RuleTriggered(rs[j], ev, repo).isTriggered

\* Rule j fires and carries the deny hint
Stops(rs, j, ev, repo) == Fires(rs, j, ev, repo) /\ rs[j].Decision = "deny"

\* The provider fetch rule r needs fails, or its pure predicate returns an error
FetchFails(r, ev, repo) ==
    \/ r.ID = "HIGH_VELOCITY_CUSTOMER" /\ IsString(ev.customer_id) /\ "history" \in repo.down
    \/ r.ID = "SUSPICIOUS_IP_ORIGIN" /\ IsString(ev.origin) /\ "ip" \in repo.down

PredicateFails(r, ev) ==
    /\ r.ID \notin {"HIGH_VELOCITY_CUSTOMER", "SUSPICIOUS_IP_ORIGIN"}
    /\ CallPredicate(r.Predicate, ev).err # "nil"

Fails(rs, j, ev, repo) ==
    rs[j].Enabled /\ (FetchFails(rs[j], ev, repo) \/ PredicateFails(rs[j], ev))

\* The underlying cause the error of a failing rule wraps
CauseOf(r, ev) ==
    CASE r.ID = "HIGH_VELOCITY_CUSTOMER" -> "history backend unavailable"
      [] r.ID = "SUSPICIOUS_IP_ORIGIN" -> "ip backend unavailable"
      [] OTHER -> CallPredicate(r.Predicate, ev).err

\* Evaluation gets as far as rule j: nothing before it stopped or failed
Reached(rs, j, ev, repo) ==
    \A m \in 1..(j - 1) : ~Stops(rs, m, ev, repo) /\ ~Fails(rs, m, ev, repo)

\* The rules that contribute: fired, and reached
Contributing(rs, ev, repo) ==
    {j \in 1..Len(rs) : Fires(rs, j, ev, repo) /\ Reached(rs, j, ev, repo)}

RECURSIVE SumImpact(_, _)
SumImpact(rs, S) ==
    IF S = {} THEN 0
    ELSE LET j == CHOOSE x \in S : TRUE
         IN  rs[j].ScoreImpact + SumImpact(rs, S \ {j})

\* The descriptions of the rules of S, in catalog order
Descriptions(rs, S) ==
    LET idx == SelectSeq([j \in 1..Len(rs) |-> j], LAMBDA j : j \in S)
    IN  [k \in 1..Len(idx) |-> rs[idx[k]].Description]

Delete(seq, i) == [k \in 1..(Len(seq) - 1) |-> IF k < i THEN seq[k] ELSE seq[k + 1]]

Returned(r) == [decision |-> r.decision, err |-> r.err]

Succeeded == last.called /\ last.out.err = NoErr

----------------------------------------------------------------------------
(* C1 *)

\* Rule i is enabled, carries the deny hint, and the last call evaluated it
\* and found it triggered
DenyTriggered(i) ==
    /\ last.called
    /\ rules[i].Enabled /\ rules[i].Decision = "deny"
    /\ [rule |-> i, isTriggered |-> TRUE] \in Range(last.det.evaluated)

\* C1: if an enabled deny-hint rule triggers during CheckTransaction, the call
\* succeeds with decision deny, no rule after it in catalog order is evaluated
\* (no log entry, no provider fetch), and score and reasons are those of the
\* rules up to and including it.
C1_DenyShortCircuits ==
    last.called =>
        \A i \in 1..Len(rules) :
            DenyTriggered(i) =>
                LET upTo == {j \in 1..i : Fires(rules, j, last.ev, Repo)}
                IN  /\ last.out.err = NoErr
                    /\ last.out.decision.Decision = "deny"
                    /\ \A e \in Range(last.det.evaluated) : e.rule <= i
                    /\ \A f \in Range(last.det.fetches) : f.rule <= i
                    /\ last.out.decision.OverallScore = SumImpact(rules, upTo)
                    /\ last.out.decision.Reasons = Descriptions(rules, upTo)

\* A deny-hint rule triggered and the rule after it would have fired too
C1_Witness ==
    /\ last.called
    /\ \E i \in 1..(Len(rules) - 1) :
          DenyTriggered(i) /\ Fires(rules, i + 1, last.ev, Repo)

----------------------------------------------------------------------------
(* C4 *)

NoDenyHintFired ==
    \A j \in Contributing(rules, last.ev, Repo) : rules[j].Decision # "deny"

\* The decision the rule hints leave when the loop completes
HintDecision ==
    IF \E j \in Contributing(rules, last.ev, Repo) : rules[j].Decision = "flag"
    THEN "flag" ELSE "approve"

\* C4: when the loop completes without a deny-hint rule triggering, a total
\* score >= 100 gives deny, otherwise a total score >= 50 gives flag, and
\* under 50 the decision is the one the rule hints set.
C4_ThresholdOverrides ==
    (Succeeded /\ NoDenyHintFired) =>
        LET score == last.out.decision.OverallScore
        IN  last.out.decision.Decision =
                IF score >= HighRiskThreshold THEN "deny"
                ELSE IF score >= MediumRiskThreshold THEN "flag"
                ELSE HintDecision

\* The medium threshold, met exactly, turns an approve into a flag
C4_Witness ==
    /\ Succeeded /\ NoDenyHintFired
    /\ HintDecision = "approve"
    /\ last.out.decision.OverallScore = MediumRiskThreshold
    /\ last.out.decision.Decision = "flag"

----------------------------------------------------------------------------
(* C6 *)

\* C6: the OverallScore of a successful call is the sum of ScoreImpact over
\* the enabled rules that triggered and were reached (none after the first
\* triggered deny-hint rule); nothing else adds to it.
C6_ScoreIsSumOfContributing ==
    Succeeded =>
        last.out.decision.OverallScore
            = SumImpact(rules, Contributing(rules, last.ev, Repo))

\* Two rules contributed, the second ending the evaluation with a deny
C6_Witness ==
    /\ Succeeded
    /\ Cardinality(Contributing(rules, last.ev, Repo)) = 2
    /\ \E j \in Contributing(rules, last.ev, Repo) : rules[j].Decision = "deny"
    /\ last.out.decision.OverallScore # 0

----------------------------------------------------------------------------
(* C7 *)

\* C7: the Reasons of a successful call are the descriptions of the rules
\* that triggered and were evaluated, one each, in catalog order; their
\* number is the number of triggered rules evaluated.
C7_ReasonsInCatalogOrder ==
    Succeeded =>
        /\ last.out.decision.Reasons
              = Descriptions(rules, Contributing(rules, last.ev, Repo))
        /\ Len(last.out.decision.Reasons)
              = Cardinality({k \in DOMAIN last.det.evaluated :
                                last.det.evaluated[k].isTriggered})

\* Two different reasons were returned
C7_Witness ==
    /\ Succeeded
    /\ Len(last.out.decision.Reasons) = 2
    /\ last.out.decision.Reasons[1] # last.out.decision.Reasons[2]

----------------------------------------------------------------------------
(* C8 *)

\* The rule at which the last call's evaluation fails, if any
FailingRules ==
    {j \in 1..Len(rules) :
        Fails(rules, j, last.ev, Repo) /\ Reached(rules, j, last.ev, Repo)}

\* C8: CheckTransaction fails exactly when a provider fetch needed by an
\* enabled rule that is reached fails, or a reached pure rule's predicate
\* returns an error; the error names that rule and wraps the cause, and both
\* the detector and the service return the empty decision beside it.
C8_NoPartialDecision ==
    last.called =>
        /\ (last.out.err # NoErr) <=> (FailingRules # {})
        /\ last.det.err = last.out.err
        /\ last.out.err # NoErr =>
              /\ last.det.decision = EmptyDecision
              /\ last.out.decision = EmptyDecision
              /\ \E j \in FailingRules :
                    /\ last.out.err.rule = rules[j].ID
                    /\ last.out.err.cause = CauseOf(rules[j], last.ev)

\* The evaluation failed after an earlier rule had already fired
C8_Witness ==
    /\ last.called
    /\ last.out.err # NoErr
    /\ \E j \in FailingRules : \E m \in 1..(j - 1) : Fires(rules, m, last.ev, Repo)

----------------------------------------------------------------------------
(* C3 *)

\* What a detector constructed over rs returns for the last call's event
ReturnedOver(rs) ==
    Returned(ServiceCheckTransaction(NewRuleBasedFraudDetector(rs), last.ev, Repo))

\* The disabled rule i of the given catalog has no effect on the last call:
\* the same catalog without it returns the same, and no fetch was made for it
DisabledHasNoEffect(i) ==
    /\ Returned(last.out) = ReturnedOver(Delete(given, i))
    /\ \A f \in Range(last.det.fetches) : f.rule # i

\* C3 as stated: every disabled rule of every catalog can be deleted without
\* changing what CheckTransaction returns.
C3_DisabledEqualsDeleted ==
    last.called =>
        \A i \in 1..Len(given) : ~given[i].Enabled => DisabledHasNoEffect(i)

\* C3, amended: the same, for catalogs that hold at least one other rule (the
\* list left by deleting a catalog's only rule is empty, and the constructor
\* replaces an empty list by the default rules).
C3_DisabledEqualsDeletedNonEmpty ==
    (last.called /\ Len(given) >= 2) =>
        \A i \in 1..Len(given) : ~given[i].Enabled => DisabledHasNoEffect(i)

\* A disabled rule whose trigger condition held sat beside a rule that fired
C3_Witness ==
    /\ Succeeded
    /\ Len(given) >= 2
    /\ \E i \in 1..Len(given) :
          /\ ~given[i].Enabled
          /\ RuleTriggered(given[i], last.ev, Repo).isTriggered
          /\ \E j \in 1..Len(given) : j # i /\ Fires(given, j, last.ev, Repo)

----------------------------------------------------------------------------
(* C5 *)

ApproveNothing == [OverallScore |-> 0, Decision |-> "approve", Reasons |-> <<>>]

\* The trigger conditions of the three default rules, and the failure of a
\* fetch they need, stated on the event and the provider's data
DefaultRuleTriggers(ev) ==
    \/ IsFloat(ev.amount) /\ ev.amount.v > 1000
    \/ /\ IsString(ev.origin)
       /\ \/ ev.origin.v = "suspicious_ip"
          \/ ev.origin.v \in DOMAIN ipData /\ ipData[ev.origin.v]
    \/ /\ IsString(ev.customer_id)
       /\ ev.customer_id.v \in DOMAIN transactions
       /\ Cardinality({k \in DOMAIN transactions[ev.customer_id.v] :
                          transactions[ev.customer_id.v][k].Timestamp > now - LookbackHours})
             > 5

DefaultFetchFails(ev) ==
    \/ IsString(ev.origin) /\ "ip" \in down
    \/ IsString(ev.customer_id) /\ "history" \in down

\* C5 as stated: a detector constructed with an empty rule list returns
\* approve, score 0 and no reasons for every event.
C5_EmptyCatalogApproves ==
    (last.called /\ given = <<>>) =>
        last.out.err = NoErr /\ last.out.decision = ApproveNothing

\* C5, amended: a detector constructed with an empty rule list evaluates the
\* default rules, so it returns approve, score 0 and no reasons exactly for
\* the events that trigger no default rule (and need no failing fetch); a
\* catalog none of whose rules is enabled returns approve, score 0 and no
\* reasons for every event, without any fetch.
C5_EmptyListFallsBackToDefaults ==
    last.called =>
        /\ given = <<>> =>
              /\ rules = DefaultRules
              /\ (last.out.err = NoErr /\ last.out.decision = ApproveNothing)
                    <=> (~DefaultRuleTriggers(last.ev) /\ ~DefaultFetchFails(last.ev))
        /\ (\A i \in 1..Len(rules) : ~rules[i].Enabled) =>
              /\ last.out.err = NoErr
              /\ last.out.decision = ApproveNothing
              /\ last.det.fetches = <<>>

\* Constructed with an empty list, the detector denied an event
C5_Witness ==
    /\ last.called /\ given = <<>>
    /\ last.out.err = NoErr
    /\ last.out.decision.Decision = "deny"
    /\ last.out.decision.OverallScore = 120

----------------------------------------------------------------------------
(* The payment-link validator: FraudService.ValidatePaymentLink,            *)
(* TrackPaymentLink and GetTransactionDetailsByReference.                   *)
(*                                                                          *)
(* A link URL is given by what url.Parse and Query().Get make of it:        *)
(* whether it parses, and the value of each query parameter ("" or <<>>     *)
(* when the parameter is absent or empty).  merchant_id and amount are      *)
(* sequences of characters, so that strconv decides what they mean.  Error  *)
(* texts are sequences of words, so that strings.Contains is a search.      *)

Characters == {"0", "5", "9", "-"}

ParamStrings == UNION { [1..n -> Characters] : n \in 0..MaxStrLen }

References == {"", "tx1", "tx2"}

Currencies == {"", "NGN", "USD"}

UnparsableLink ==
    [parses |-> FALSE, ref |-> "", merchant_id |-> <<>>, amount |-> <<>>, currency |-> ""]

Links ==
    {UnparsableLink} \cup
    [parses : {TRUE}, ref : References, merchant_id : ParamStrings,
     amount : ParamStrings, currency : Currencies]

\* TransactionResponse, the fields ValidatePaymentLink reads
TransactionResponses ==
    { [MerchantID |-> 5, Amount |-> 5, Currency |-> "NGN"],
      [MerchantID |-> 9, Amount |-> 5, Currency |-> "NGN"],
      [MerchantID |-> 9, Amount |-> 50, Currency |-> "USD"],
      [MerchantID |-> 5, Amount |-> -5, Currency |-> "USD"] }

IsDigit(c) == c \in {"0", "1", "2", "3", "4", "5", "6", "7", "8", "9"}

DigitValue(c) ==
    CASE c = "0" -> 0 [] c = "1" -> 1 [] c = "2" -> 2 [] c = "3" -> 3 [] c = "4" -> 4
      [] c = "5" -> 5 [] c = "6" -> 6 [] c = "7" -> 7 [] c = "8" -> 8 [] c = "9" -> 9

NotANumber == [ok |-> FALSE, val |-> 0]

RECURSIVE ParseDigits(_, _, _)
ParseDigits(str, i, acc) ==
    IF i > Len(str) THEN [ok |-> TRUE, val |-> acc]
    ELSE IF ~IsDigit(str[i]) THEN NotANumber
    ELSE ParseDigits(str, i + 1, acc * 10 + DigitValue(str[i]))

\* strconv.Atoi: an optional sign, then one or more decimal digits.  (The
\* strings of the model are too short to leave the range of int.)
Atoi(str) ==
    IF Len(str) = 0 THEN NotANumber
    ELSE LET signed == str[1] \in {"+", "-"}
             digits == IF signed THEN Tail(str) ELSE str
         IN  IF Len(digits) = 0 THEN NotANumber
             ELSE LET r == ParseDigits(digits, 1, 0)
                  IN  IF ~r.ok THEN NotANumber
                      ELSE [ok |-> TRUE, val |-> IF str[1] = "-" THEN -r.val ELSE r.val]

\* strconv.ParseInt(s, 10, 64): the same syntax, base 10, 64 bits
ParseInt(str) == Atoi(str)

RECURSIVE ContainsAt(_, _, _)
ContainsAt(text, sub, i) ==
    IF i + Len(sub) - 1 > Len(text) THEN FALSE
    ELSE IF SubSeq(text, i, i + Len(sub) - 1) = sub THEN TRUE
    ELSE ContainsAt(text, sub, i + 1)

\* strings.Contains
Contains(text, sub) == ContainsAt(text, sub, 1)

\* What can go wrong between the service and the authority on one fetch:
\* nothing, a transport error, a non-200 status with a body, or a 200 whose
\* body does not decode
Faults ==
    { [kind |-> "none", detail |-> <<>>],
      [kind |-> "transport", detail |-> <<"connection", "refused">>],
      [kind |-> "status", detail |-> <<"internal", "error">>],
      [kind |-> "status", detail |-> <<"upstream", "not", "found">>],
      [kind |-> "decode", detail |-> <<"unexpected", "EOF">>] }

NoTransaction == [MerchantID |-> 0, Amount |-> 0, Currency |-> ""]

\* GetTransactionDetailsByReference: (*TransactionResponse, error).  The
\* authority answers 404 for a reference it does not hold.
GetTransactionDetailsByReference(auth, fault, reference) ==
    CASE fault.kind = "transport" ->
            [tx |-> NoTransaction,
             err |-> <<"failed", "to", "get", "transaction", "from", "transaction",
                       "service:">> \o fault.detail]
      [] fault.kind = "status" ->
            [tx |-> NoTransaction,
             err |-> <<"transaction", "service", "returned", "status", "500:">>
                       \o fault.detail]
      [] fault.kind = "decode" ->
            [tx |-> NoTransaction,
             err |-> <<"failed", "to", "decode", "transaction", "response", "from",
                       "transaction", "service:">> \o fault.detail]
      [] OTHER ->
            IF reference \notin DOMAIN auth
            THEN [tx |-> NoTransaction,
                  err |-> <<"transaction", "with", "reference", reference, "not", "found">>]
            ELSE [tx |-> auth[reference], err |-> <<>>]

Suspicious(reason, fetched) ==
    [suspicious |-> TRUE, reason |-> reason, err |-> "nil", fetched |-> fetched]

\* CrossCheck without the currency comparison
MutCrossCheckNoCurrency(originalTx, merchantID, amount, currency, fetched) ==
    IF originalTx.MerchantID # merchantID
    THEN Suspicious([kind |-> "Merchant ID mismatch", link |-> merchantID,
                     original |-> originalTx.MerchantID], fetched)
    ELSE IF originalTx.Amount # amount
    THEN Suspicious([kind |-> "Amount mismatch", link |-> amount,
                     original |-> originalTx.Amount], fetched)
    ELSE [suspicious |-> FALSE, reason |-> [kind |-> "Payment link is legitimate"],
          err |-> "nil", fetched |-> fetched]

\* CrossCheck comparing the amount before the merchant
MutCrossCheckAmountFirst(originalTx, merchantID, amount, currency, fetched) ==
    IF originalTx.Amount # amount
    THEN Suspicious([kind |-> "Amount mismatch", link |-> amount,
                     original |-> originalTx.Amount], fetched)
    ELSE IF originalTx.MerchantID # merchantID
    THEN Suspicious([kind |-> "Merchant ID mismatch", link |-> merchantID,
                     original |-> originalTx.MerchantID], fetched)
    ELSE IF originalTx.Currency # currency
    THEN Suspicious([kind |-> "Currency mismatch", link |-> currency,
                     original |-> originalTx.Currency], fetched)
    ELSE [suspicious |-> FALSE, reason |-> [kind |-> "Payment link is legitimate"],
          err |-> "nil", fetched |-> fetched]

\* The cross-check of the link against the fetched transaction
CrossCheck(originalTx, merchantID, amount, currency, fetched) ==
    IF originalTx.MerchantID # merchantID
    THEN Suspicious([kind |-> "Merchant ID mismatch", link |-> merchantID,
                     original |-> originalTx.MerchantID], fetched)
    ELSE IF originalTx.Amount # amount
    THEN Suspicious([kind |-> "Amount mismatch", link |-> amount,
                     original |-> originalTx.Amount], fetched)
    ELSE IF originalTx.Currency # currency
    THEN Suspicious([kind |-> "Currency mismatch", link |-> currency,
                     original |-> originalTx.Currency], fetched)
    ELSE [suspicious |-> FALSE, reason |-> [kind |-> "Payment link is legitimate"],
          err |-> "nil", fetched |-> fetched]

\* ValidatePaymentLink not checking the error of ParseInt
MutValidatePaymentLinkUncheckedAmount(linkUrl, auth, fault) ==
    IF ~linkUrl.parses
    THEN Suspicious([kind |-> "Invalid payment link URL format"], <<>>)
    ELSE IF \/ linkUrl.ref = "" \/ linkUrl.merchant_id = <<>>
            \/ linkUrl.amount = <<>> \/ linkUrl.currency = ""
    THEN Suspicious([kind |-> "Missing required parameters in payment link"], <<>>)
    ELSE IF ~Atoi(linkUrl.merchant_id).ok
    THEN Suspicious([kind |-> "Invalid merchant_id format in payment link"], <<>>)
    ELSE LET merchantID == Atoi(linkUrl.merchant_id).val
             amount == ParseInt(linkUrl.amount).val
             got == GetTransactionDetailsByReference(auth, fault, linkUrl.ref)
             fetched == <<linkUrl.ref>>
         IN  IF got.err # <<>>
             THEN IF Contains(got.err, <<"not", "found">>)
                  THEN Suspicious([kind |-> "Transaction reference not found for payment link",
                                   ref |-> linkUrl.ref], fetched)
                  ELSE Suspicious([kind |-> "Error fetching original transaction details",
                                   detail |-> got.err], fetched)
             ELSE CrossCheck(got.tx, merchantID, amount, linkUrl.currency, fetched)

\* FraudService.ValidatePaymentLink: (bool, string, error), with the
\* references it fetched from the authority
ValidatePaymentLink(linkUrl, auth, fault) ==
    IF ~linkUrl.parses
    THEN Suspicious([kind |-> "Invalid payment link URL format"], <<>>)
    ELSE IF \/ linkUrl.ref = "" \/ linkUrl.merchant_id = <<>>
            \/ linkUrl.amount = <<>> \/ linkUrl.currency = ""
    THEN Suspicious([kind |-> "Missing required parameters in payment link"], <<>>)
    ELSE IF ~Atoi(linkUrl.merchant_id).ok
    THEN Suspicious([kind |-> "Invalid merchant_id format in payment link"], <<>>)
    ELSE IF ~ParseInt(linkUrl.amount).ok
    THEN Suspicious([kind |-> "Invalid amount format in payment link"], <<>>)
    ELSE LET merchantID == Atoi(linkUrl.merchant_id).val
             amount == ParseInt(linkUrl.amount).val
             got == GetTransactionDetailsByReference(auth, fault, linkUrl.ref)
             fetched == <<linkUrl.ref>>
         IN  IF got.err # <<>>
             THEN IF Contains(got.err, <<"not", "found">>)
                  THEN Suspicious([kind |-> "Transaction reference not found for payment link",
                                   ref |-> linkUrl.ref], fetched)
                  ELSE Suspicious([kind |-> "Error fetching original transaction details",
                                   detail |-> got.err], fetched)
             ELSE CrossCheck(got.tx, merchantID, amount, linkUrl.currency, fetched)

\* linkData["url"] as TrackPaymentLink may find it: missing, not a string,
\* the empty string, or a link
LinkData ==
    {[t |-> "absent"], [t |-> "float64"], [t |-> "string", empty |-> TRUE]}
        \cup {[t |-> "string", empty |-> FALSE, v |-> l] : l \in Links}

IsLink(url) == url.t = "string" /\ ~url.empty

\* FraudService.TrackPaymentLink
TrackPaymentLink(url, auth, fault) ==
    IF ~(url.t = "string") \/ url.empty
    THEN Suspicious([kind |-> "Invalid or missing URL in link data"], <<>>)
    ELSE ValidatePaymentLink(url.v, auth, fault)

----------------------------------------------------------------------------
(* The validator as a state machine *)

\* The detector of the routes wiring, and no link request in hand
InitLink ==
    /\ given = DefaultRules
    /\ rules = NewRuleBasedFraudDetector(given)
    /\ transactions = EmptyMap
    /\ ipData = EmptyMap
    /\ down = {}
    /\ now = 2 * LookbackHours
    /\ last = NoCall
    /\ authority = EmptyMap
    /\ link = NoCall
    /\ prev = NoCall
    /\ calls = <<>>

\* The authority comes to hold a transaction (outside this service)
CreateTransaction(reference, tx) ==
    /\ link = NoCall
    /\ reference \notin DOMAIN authority
    /\ authority' = (reference :> tx) @@ authority
    /\ UNCHANGED link
    /\ UNCHANGED detectorVars
    /\ UNCHANGED <<prev, calls>>

\* One request: handler TrackPaymentLink -> FraudService.TrackPaymentLink
TrackPaymentLinkCall ==
    /\ link = NoCall
    /\ \E url \in LinkData, fault \in Faults :
          link' = [called |-> TRUE, url |-> url, fault |-> fault,
                   res |-> TrackPaymentLink(url, authority, fault)]
    /\ UNCHANGED authority
    /\ UNCHANGED detectorVars
    /\ UNCHANGED <<prev, calls>>

\* The handler writes the response
RespondLink ==
    /\ link # NoCall
    /\ link' = NoCall
    /\ UNCHANGED authority
    /\ UNCHANGED detectorVars
    /\ UNCHANGED <<prev, calls>>

NextLink ==
    \/ \E tx \in TransactionResponses : CreateTransaction("tx1", tx)
    \/ TrackPaymentLinkCall
    \/ RespondLink

SpecLink == InitLink /\ [][NextLink]_vars

----------------------------------------------------------------------------
(* What the link properties are stated in terms of *)

\* str is a decimal integer: an optional sign and at least one digit
IsInteger(str) ==
    \E k \in {0, 1} :
        /\ Len(str) > k
        /\ k = 1 => str[1] \in {"+", "-"}
        /\ \A i \in (k + 1)..Len(str) : IsDigit(str[i])

\* The decimal digit of n >= 0 at position p (0 the last)
RECURSIVE DigitAt(_, _)
DigitAt(n, p) == IF p = 0 THEN n % 10 ELSE DigitAt(n \div 10, p - 1)

RECURSIVE Pow10(_)
Pow10(p) == IF p = 0 THEN 1 ELSE 10 * Pow10(p - 1)

\* n is the number the integer str denotes
Denotes(str, n) ==
    LET k == IF str[1] \in {"+", "-"} THEN 1 ELSE 0
        abs == IF n < 0 THEN -n ELSE n
    IN  /\ IsInteger(str)
        /\ (n < 0) => str[1] = "-"
        /\ (n > 0) => str[1] # "-"
        /\ \A i \in (k + 1)..Len(str) :
              DigitValue(str[i]) = DigitAt(abs, Len(str) - i)
        /\ abs < Pow10(Len(str) - k)

\* The link was handed to ValidatePaymentLink
Validated == link.called /\ IsLink(link.url)

TheLink == link.url.v

WellFormed(l) ==
    /\ l.parses
    /\ l.ref # "" /\ l.merchant_id # <<>> /\ l.amount # <<>> /\ l.currency # ""
    /\ IsInteger(l.merchant_id) /\ IsInteger(l.amount)

\* The authority fetch for the link's reference succeeds
FetchSucceeds == link.fault.kind = "none" /\ TheLink.ref \in DOMAIN authority

----------------------------------------------------------------------------
(* C2 *)

\* The link's merchant id, amount and currency are those of the record the
\* authority holds for its reference
AgreesWithAuthority(l) ==
    LET tx == authority[l.ref]
    IN  /\ Denotes(l.merchant_id, tx.MerchantID)
        /\ Denotes(l.amount, tx.Amount)
        /\ l.currency = tx.Currency

\* C2: ValidatePaymentLink returns suspicious=false, with the reason that the
\* link is legitimate, if and only if the URL parses, the four parameters are
\* present, merchant_id and amount are integers, the fetch for ref succeeds
\* and the three values equal the fetched record's; otherwise suspicious=true.
C2_LegitimateIffAllChecksPass ==
    Validated =>
        /\ link.res.suspicious \in BOOLEAN
        /\ ~link.res.suspicious
              <=> (WellFormed(TheLink) /\ FetchSucceeds /\ AgreesWithAuthority(TheLink))
        /\ ~link.res.suspicious => link.res.reason = [kind |-> "Payment link is legitimate"]

\* A link written with a leading zero was found legitimate
C2_Witness ==
    /\ Validated
    /\ ~link.res.suspicious
    /\ Len(TheLink.merchant_id) = 2
    /\ TheLink.merchant_id[1] = "0"

----------------------------------------------------------------------------
(* C9 *)

\* The reason a malformed request is answered with
MalformedReason(url) ==
    IF ~IsLink(url) THEN "Invalid or missing URL in link data"
    ELSE IF ~url.v.parses THEN "Invalid payment link URL format"
    ELSE IF \/ url.v.ref = "" \/ url.v.merchant_id = <<>>
            \/ url.v.amount = <<>> \/ url.v.currency = ""
    THEN "Missing required parameters in payment link"
    ELSE IF ~IsInteger(url.v.merchant_id) THEN "Invalid merchant_id format in payment link"
    ELSE "Invalid amount format in payment link"

Malformed(url) == ~IsLink(url) \/ ~WellFormed(url.v)

\* C9: a link that is missing, unparsable, lacks one of ref, merchant_id,
\* amount, currency, or whose merchant_id or amount is not an integer, is
\* answered suspicious=true with a nil error and the reason for that defect,
\* and no fetch to the authority is made; no request returns an error.
C9_MalformedIsSuspiciousNoFetch ==
    link.called =>
        /\ link.res.err = "nil"
        /\ Malformed(link.url) =>
              /\ link.res.suspicious
              /\ link.res.reason = [kind |-> MalformedReason(link.url)]
              /\ link.res.fetched = <<>>

\* Only the amount was malformed, and the authority held the reference
C9_Witness ==
    /\ Validated
    /\ TheLink.parses /\ TheLink.ref \in DOMAIN authority /\ TheLink.currency # ""
    /\ IsInteger(TheLink.merchant_id)
    /\ TheLink.amount # <<>> /\ ~IsInteger(TheLink.amount)
    /\ link.fault.kind = "none"
    /\ link.res.suspicious
    /\ link.res.fetched = <<>>

----------------------------------------------------------------------------
(* C10 *)

\* C10: after a successful fetch the merchant id is compared first, then the
\* amount, then the currency, and the reason names the first that differs,
\* with the link's value and the authority's.
C10_FirstMismatchNamed ==
    (Validated /\ WellFormed(TheLink) /\ FetchSucceeds) =>
        LET l == TheLink
            tx == authority[l.ref]
            r == link.res.reason
        IN  /\ link.res.fetched = <<l.ref>>
            /\ IF ~Denotes(l.merchant_id, tx.MerchantID)
               THEN /\ link.res.suspicious
                    /\ r.kind = "Merchant ID mismatch"
                    /\ Denotes(l.merchant_id, r.link)
                    /\ r.original = tx.MerchantID
               ELSE IF ~Denotes(l.amount, tx.Amount)
               THEN /\ link.res.suspicious
                    /\ r.kind = "Amount mismatch"
                    /\ Denotes(l.amount, r.link)
                    /\ r.original = tx.Amount
               ELSE l.currency # tx.Currency =>
                    /\ link.res.suspicious
                    /\ r.kind = "Currency mismatch"
                    /\ r.link = l.currency
                    /\ r.original = tx.Currency

\* merchant_id=5 against the authority's 9, amount and currency differing too
C10_Witness ==
    /\ Validated /\ WellFormed(TheLink) /\ FetchSucceeds
    /\ TheLink.merchant_id = <<"5">>
    /\ authority[TheLink.ref].MerchantID = 9
    /\ ~Denotes(TheLink.amount, authority[TheLink.ref].Amount)
    /\ TheLink.currency # authority[TheLink.ref].Currency
    /\ link.res.reason = [kind |-> "Merchant ID mismatch", link |-> 5, original |-> 9]

----------------------------------------------------------------------------
(* C11 *)

\* The authority answered 404: nothing went wrong on the way, and it holds
\* no record for the link's reference
AuthorityAnswers404 == link.fault.kind = "none" /\ TheLink.ref \notin DOMAIN authority

\* C11: a fetch failure is classified by its cause.  When the authority
\* answers 404 the reason is that the reference was not found; when the fetch
\* fails for any other cause (a non-2xx status other than 404, a decode
\* failure, a transport error) the reason is the fetch-failure reason and
\* embeds the failure detail, whatever that detail is.
C11_FailuresClassifiedByCause ==
    (Validated /\ WellFormed(TheLink) /\ ~FetchSucceeds) =>
        /\ link.res.suspicious
        /\ AuthorityAnswers404 =>
              link.res.reason = [kind |-> "Transaction reference not found for payment link",
                                 ref |-> TheLink.ref]
        /\ ~AuthorityAnswers404 =>
              /\ link.res.reason.kind = "Error fetching original transaction details"
              /\ Contains(link.res.reason.detail, link.fault.detail)

----------------------------------------------------------------------------
(* The decision engine over time: the default catalog, a store seeded for   *)
(* two customers, and a clock that advances between requests                *)

Customers == {"c1", "c2"}

\* The clock advances by half a lookback window at a time, so that a record
\* is seen inside the window, exactly on its edge, and outside it
TickHours == LookbackHours \div 2

WindowEvents ==
    [customer_id : {Str("c1")}, amount : {Num(10), Num(1500)}, origin : {Str("clean")}]

\* context.Context as the request carries it: live, or already cancelled
Contexts == {"live", "cancelled"}

\* FraudService.CheckTransaction with its context.  ctx is handed down to
\* FraudDataRepository.GetTransactionHistory and GetIPData; the in-memory
\* repository never reads it, and no other statement of the call does.
CheckTransactionWithContext(ctx, rs, ev, repo) == ServiceCheckTransaction(rs, ev, repo)

Stored(c) == IF c \in DOMAIN transactions THEN Len(transactions[c]) ELSE 0

\* Routes wiring: the detector over DefaultRules(), an empty repository
InitWindow ==
    /\ given = DefaultRules
    /\ rules = NewRuleBasedFraudDetector(given)
    /\ transactions = EmptyMap
    /\ ipData = EmptyMap
    /\ down = {}
    /\ now = 2 * LookbackHours
    /\ last = NoCall
    /\ authority = EmptyMap
    /\ link = NoCall
    /\ prev = NoCall
    /\ calls = <<>>

\* InMemoryFraudDataRepository.AddTransaction of a record stamped time.Now().
\* A write to the store ends the run of requests that prev remembers.
AddTransactionNow(customerID) ==
    /\ last = NoCall
    /\ Stored("c1") + Stored("c2") < MaxRecords
    /\ transactions' =
         IF customerID \in DOMAIN transactions
         THEN [transactions EXCEPT ![customerID] = Append(@, TransactionRecord(now))]
         ELSE (customerID :> <<TransactionRecord(now)>>) @@ transactions
    /\ prev' = NoCall
    /\ UNCHANGED <<given, rules, ipData, down, now, last>>
    /\ UNCHANGED <<linkVars, calls>>

\* Time passes between requests
Tick ==
    /\ last = NoCall
    /\ now < 2 * LookbackHours + MaxTicks * TickHours
    /\ now' = now + TickHours
    /\ UNCHANGED <<given, rules, transactions, ipData, down, last>>
    /\ UNCHANGED <<linkVars, prev, calls>>

\* One request, with the clock reading at which it is served
CheckTransactionAt ==
    /\ last = NoCall
    /\ \E ev \in WindowEvents, ctx \in Contexts :
          last' = [called |-> TRUE, ev |-> ev, ctx |-> ctx, at |-> now,
                   det |-> CheckTransaction(rules, ev, Repo),
                   out |-> CheckTransactionWithContext(ctx, rules, ev, Repo)]
    /\ UNCHANGED <<given, rules, transactions, ipData, down, now>>
    /\ UNCHANGED <<linkVars, prev, calls>>

\* The response is written; the request is remembered as the previous one
RespondAt ==
    /\ last # NoCall
    /\ prev' = last
    /\ last' = NoCall
    /\ UNCHANGED <<given, rules, transactions, ipData, down, now>>
    /\ UNCHANGED <<linkVars, calls>>

NextWindow ==
    \/ \E c \in Customers : AddTransactionNow(c)
    \/ Tick
    \/ CheckTransactionAt
    \/ RespondAt

SpecWindow == InitWindow /\ [][NextWindow]_vars

----------------------------------------------------------------------------
(* C12 *)

\* The records of customer c that lie inside the lookback window at time t
InWindow(c, t) ==
    IF c \in DOMAIN transactions
    THEN {i \in 1..Len(transactions[c]) : transactions[c][i].Timestamp > t - LookbackHours}
    ELSE {}

\* The request in hand repeats the previous one: same event data, and no
\* write to the store since
Repeats == last.called /\ prev.called /\ last.ev = prev.ev

\* C12 as stated: two calls with identical event data on the same detector,
\* with no seeding write between them, return identical decisions (score,
\* decision, reasons), however much time passes between the two calls.
C12_IdempotentOverTime == Repeats => Returned(last.out) = Returned(prev.out)

\* C12, amended: two such calls return identical decisions provided the same
\* records of the customer lie inside the lookback window at both calls.
C12_IdempotentWhileWindowHolds ==
    (Repeats /\ InWindow(last.ev.customer_id.v, last.at) = InWindow(last.ev.customer_id.v, prev.at))
        => Returned(last.out) = Returned(prev.out)

\* Time has passed between two repeated calls, a record is on the edge of the
\* window at one of them, and the velocity rule fired both times
C12_Witness ==
    /\ Repeats /\ last.at > prev.at
    /\ InWindow("c1", last.at) = InWindow("c1", prev.at)
    /\ "c1" \in DOMAIN transactions
    /\ \E i \in 1..Len(transactions["c1"]) :
          transactions["c1"][i].Timestamp + LookbackHours = last.at + TickHours
    /\ last.out.decision.OverallScore >= 60

----------------------------------------------------------------------------
(* Concurrent requests: every request runs CheckTransaction in a goroutine  *)
(* of its own, on the one detector and the one repository; a step is one    *)
(* iteration of the rule loop, and the calls' steps interleave freely        *)

Procs == 1..NumCalls

Pooled(id) == CHOOSE r \in RulePool : r.ID = id /\ r.Enabled

\* Catalogs with a provider lookup, a deny hint amid other rules, and a
\* predicate that can fail
ConcurrentCatalogs ==
    { DefaultRules,
      << DefaultRules[1], Pooled("BLOCKED_ORIGIN"), DefaultRules[2] >>,
      << Pooled("STRICT_AMOUNT"), Pooled("HIGH_VELOCITY_CUSTOMER") >> }

ConcurrentEvents ==
    [customer_id : {Str("c1")},
     amount      : {Num(1500), Str("1500")},
     origin      : {Str("suspicious_ip"), Str("vpn_ip")}]

Idle == [pc |-> "idle"]

\* What CheckTransaction returns once its loop has ended in state st
ReturnOf(st) ==
    IF st.ctl = "return"
    THEN [decision |-> EmptyDecision, err |-> st.err,
          fetches |-> st.fetches, evaluated |-> st.evaluated]
    ELSE [decision |-> [OverallScore |-> st.totalScore,
                        Decision |-> FinalDecision(st.Decision, st.totalScore),
                        Reasons |-> st.Reasons],
          err |-> NoErr, fetches |-> st.fetches, evaluated |-> st.evaluated]

\* A detector over one of the catalogs, a repository seeded before traffic
InitConcurrent ==
    /\ given \in ConcurrentCatalogs
    /\ rules = NewRuleBasedFraudDetector(given)
    /\ transactions \in {EmptyMap,
                         "c1" :> <<TransactionRecord(2 * LookbackHours),
                                   TransactionRecord(2 * LookbackHours)>>}
    /\ ipData = EmptyMap
    /\ down \in {{}, {"ip"}}
    /\ now = 2 * LookbackHours
    /\ last = NoCall
    /\ authority = EmptyMap
    /\ link = NoCall
    /\ prev = NoCall
    /\ calls = [p \in Procs |-> Idle]

\* AddIPData while no call is running
AddIPDataBetween(ipAddress, isVpn) ==
    /\ \A p \in Procs : calls[p] = Idle
    /\ ipData' = (ipAddress :> isVpn) @@ [k \in DOMAIN ipData \ {ipAddress} |-> ipData[k]]
    /\ ipData' # ipData
    /\ UNCHANGED <<given, rules, transactions, down, now, last>>
    /\ UNCHANGED <<linkVars, prev, calls>>

\* A request arrives: totalScore, reasons and decision are the call's locals
BeginCall(p) ==
    /\ calls[p] = Idle
    /\ \E ev \in ConcurrentEvents :
          calls' = [calls EXCEPT ![p] = [pc |-> "loop", ev |-> ev, i |-> 1, st |-> LoopStart]]
    /\ UNCHANGED <<detectorVars, linkVars, prev>>

\* As StepCall, but the accumulated score, reasons and decision are kept where
\* every running call finds them
MutStepCallSharedLocals(p) ==
    /\ calls[p].pc = "loop"
    /\ calls[p].i <= Len(rules) /\ calls[p].st.ctl = "loop"
    /\ LET c == calls[p]
           st == LoopBody(c.st, rules[c.i], c.i, c.ev, Repo)
       IN  calls' = [q \in Procs |->
                        IF q = p THEN [c EXCEPT !.st = st, !.i = c.i + 1]
                        ELSE IF calls[q].pc = "loop" THEN [calls[q] EXCEPT !.st = st]
                        ELSE calls[q]]
    /\ UNCHANGED <<detectorVars, linkVars, prev>>

\* One iteration of the rule loop of call p, against the store as it is now
StepCall(p) ==
    /\ calls[p].pc = "loop"
    /\ calls[p].i <= Len(rules) /\ calls[p].st.ctl = "loop"
    /\ LET c == calls[p]
       IN  calls' = [calls EXCEPT ![p] =
                        [c EXCEPT !.st = LoopBody(c.st, rules[c.i], c.i, c.ev, Repo),
                                  !.i = c.i + 1]]
    /\ UNCHANGED <<detectorVars, linkVars, prev>>

\* The loop of call p has ended (catalog exhausted, break, or return)
ReturnCall(p) ==
    /\ calls[p].pc = "loop"
    /\ calls[p].i > Len(rules) \/ calls[p].st.ctl # "loop"
    /\ calls' = [calls EXCEPT ![p] = [pc |-> "done", ev |-> calls[p].ev,
                                      res |-> ReturnOf(calls[p].st)]]
    /\ UNCHANGED <<detectorVars, linkVars, prev>>

\* The response of call p is written
RespondCall(p) ==
    /\ calls[p].pc = "done"
    /\ calls' = [calls EXCEPT ![p] = Idle]
    /\ UNCHANGED <<detectorVars, linkVars, prev>>

NextConcurrent ==
    \/ \E ip \in KnownIPs, b \in BOOLEAN : AddIPDataBetween(ip, b)
    \/ \E p \in Procs : BeginCall(p)
    \/ \E p \in Procs : StepCall(p)
    \/ \E p \in Procs : ReturnCall(p)
    \/ \E p \in Procs : RespondCall(p)

SpecConcurrent == InitConcurrent /\ [][NextConcurrent]_vars

----------------------------------------------------------------------------
(* C13 *)

\* Some call is running, or has returned and is not yet answered
Running == \E p \in Procs : calls[p] # Idle

\* The rules a state of the loop has evaluated, in the order it evaluated them
InCatalogOrder(evaluated) ==
    \A k \in 1..Len(evaluated), l \in 1..Len(evaluated) :
        k < l => evaluated[k].rule < evaluated[l].rule

\* C13: for any interleaving of CheckTransaction calls running concurrently on
\* one detector, with no concurrent seeding write, each call returns what it
\* would return if run alone, each call evaluates the rules strictly in
\* catalog order, and no call modifies the rule catalog or the provider's store.
C13_ConcurrentCallsIndependent ==
    /\ [](\A p \in Procs :
            /\ calls[p].pc = "done" =>
                  /\ calls[p].res = CheckTransaction(rules, calls[p].ev, Repo)
                  /\ InCatalogOrder(calls[p].res.evaluated)
            /\ calls[p].pc = "loop" => InCatalogOrder(calls[p].st.evaluated))
    /\ [][Running => /\ rules' = rules
                     /\ transactions' = transactions
                     /\ ipData' = ipData]_vars

\* A call has returned a decision drawn from two rules while another call,
\* on different event data, is in the middle of its loop
C13_Witness ==
    \E p \in Procs, q \in Procs :
        /\ calls[p].pc = "done" /\ Len(calls[p].res.decision.Reasons) >= 2
        /\ calls[q].pc = "loop" /\ calls[q].i = 2 /\ calls[q].ev # calls[p].ev

----------------------------------------------------------------------------
(* C14 *)

\* C14, for CheckTransaction: if the caller's context is cancelled when a
\* data-provider call is made, the call fails with a data-unavailable error
\* and returns no decision.  (For ValidatePaymentLink the claim asks for
\* suspicious=true with the fetch-failure reason; the request of
\* GetTransactionDetailsByReference is built with the context.)
C14_CancellationFailsTheCall ==
    (last.called /\ last.ctx = "cancelled" /\ last.det.fetches # <<>>)
        => /\ last.out.err # NoErr
           /\ last.out.decision = EmptyDecision

----------------------------------------------------------------------------
(* C15 *)

\* The running score of the last call once the loop has passed the first k
\* rules of the catalog
ScoreAfter(k) == RuleLoop(SubSeq(rules, 1, k), 1, LoopStart, last.ev, Repo).totalScore

\* C15: during CheckTransaction the running score after the first k rules of
\* the catalog is at least the running score after the first k-1 rules, for
\* every catalog the detector accepts and every k.
C15_ScoreMonotone ==
    last.called => \A k \in 1..Len(rules) : ScoreAfter(k) >= ScoreAfter(k - 1)

----------------------------------------------------------------------------
(* The detector over DefaultRules(), on event data of every shape: each     *)
(* field present with the type the rule asserts, with another type, absent  *)

TypedEvents ==
    [customer_id : {Str("c1"), Num(7), Absent},
     amount      : {Num(10), Num(1000), Num(1500), Str("1500"), Absent},
     origin      : {Str("clean"), Str("suspicious_ip"), Str("vpn_ip"), Num(9), Absent}]

\* One request on event data of any shape
CheckTypedCall ==
    /\ last = NoCall
    /\ \E ev \in TypedEvents :
          last' = [called |-> TRUE, ev |-> ev,
                   det |-> CheckTransaction(rules, ev, Repo),
                   out |-> ServiceCheckTransaction(rules, ev, Repo)]
    /\ UNCHANGED <<given, rules, transactions, ipData, down, now>>
    /\ UNCHANGED <<linkVars, prev, calls>>

NextDefaults ==
    \/ \E c \in {"c1"} : AddTransaction(c, TransactionRecord(now))
    \/ \E ip \in KnownIPs, b \in BOOLEAN : AddIPData(ip, b)
    \/ \E d \in {{}, {"history"}, {"ip"}} : SetBackend(d)
    \/ CheckTypedCall
    \/ Respond

SpecDefaults == InitWindow /\ [][NextDefaults]_vars

----------------------------------------------------------------------------
(* C16 *)

\* The provider holds no history and no IP data, and answers
EmptyProvider == transactions = EmptyMap /\ ipData = EmptyMap /\ down = {}

----------------------------------------------------------------------------
(* C17 *)

\* The field default rule j reads is absent from ev, or of another type than
\* the rule asserts
FieldUnusable(j, ev) ==
    CASE j = 1 -> ~IsFloat(ev.amount)
      [] j = 2 -> ~IsString(ev.origin)
      [] j = 3 -> ~IsString(ev.customer_id)

\* C17: a missing or mistyped field never makes CheckTransaction fail.  For
\* each default rule whose field is absent or of another type: the rule is
\* not triggered, no provider fetch is made for it, no error comes from it,
\* and the rule after it is evaluated; when the fields of all three rules are
\* unusable the call succeeds whatever the provider's state.
C17_UnusableFieldIsNotAnError ==
    (last.called /\ rules = DefaultRules) =>
        /\ \A j \in 1..3 :
             FieldUnusable(j, last.ev) =>
                /\ \A k \in 1..Len(last.det.evaluated) :
                      last.det.evaluated[k].rule = j => ~last.det.evaluated[k].isTriggered
                /\ \A k \in 1..Len(last.det.fetches) : last.det.fetches[k].rule # j
                /\ last.out.err.rule # DefaultRules[j].ID
                /\ (j < 3 /\ \E k \in 1..Len(last.det.evaluated) : last.det.evaluated[k].rule = j)
                      => \E k \in 1..Len(last.det.evaluated) : last.det.evaluated[k].rule = j + 1
        /\ (\A j \in 1..3 : FieldUnusable(j, last.ev)) =>
              /\ last.out.err = NoErr
              /\ last.out.decision = [OverallScore |-> 0, Decision |-> "approve", Reasons |-> <<>>]

\* A call with origin of another type and customer_id absent was served while
\* the IP backend was down: no fetch was attempted, and the call succeeded on
\* the amount rule alone
C17_Witness ==
    /\ last.called /\ rules = DefaultRules
    /\ last.ev.origin = Num(9) /\ last.ev.customer_id = Absent /\ last.ev.amount = Num(1500)
    /\ down = {"ip"}
    /\ last.out.err = NoErr /\ last.out.decision.OverallScore = 50

----------------------------------------------------------------------------
(* C18 *)

\* The last call logged default rule 3, HIGH_VELOCITY_CUSTOMER, as b
VelocityLogged(b) == [rule |-> 3, isTriggered |-> b] \in Range(last.det.evaluated)

C18_NotTriggeredCases ==
    /\ last.called /\ VelocityLogged(FALSE)
    /\ \/ /\ Cardinality(InWindow("c1", last.at)) = 5 /\ Stored("c1") = 6
       \/ /\ Stored("c2") = 6 /\ Stored("c1") = 0

----------------------------------------------------------------------------
(* C19 *)

\* The last call logged as triggered a rule whose decision hint is h
HintTriggered(h) ==
    \E k \in 1..Len(last.det.evaluated) :
        /\ last.det.evaluated[k].isTriggered
        /\ rules[last.det.evaluated[k].rule].Decision = h

\* C19: the decision of a successful CheckTransaction is one of approve,
\* flag, deny; it is deny iff a deny-hint rule triggered or the total score
\* is >= 100; it is flag iff it is not deny and a flag-hint rule triggered or
\* the total score is >= 50; it is approve only when the score is < 50 and no
\* flag- or deny-hint rule triggered.
C19_DecisionConsistentWithScore ==
    Succeeded =>
        LET d     == last.out.decision.Decision
            score == last.out.decision.OverallScore
        IN  /\ d \in {"approve", "flag", "deny"}
            /\ d = "deny" <=> (HintTriggered("deny") \/ score >= HighRiskThreshold)
            /\ d = "flag" <=> /\ d # "deny"
                              /\ HintTriggered("flag") \/ score >= MediumRiskThreshold
            /\ d = "approve" => /\ score < MediumRiskThreshold
                                /\ ~HintTriggered("flag") /\ ~HintTriggered("deny")

\* A flag-hint rule triggered, the total stayed under the medium threshold,
\* and the decision is flag
C19_Witness ==
    /\ Succeeded
    /\ HintTriggered("flag") /\ ~HintTriggered("deny")
    /\ last.out.decision.OverallScore < MediumRiskThreshold
    /\ last.out.decision.Decision = "flag"

====
